---------------------------- MODULE Spec2Model ----------------------------
(***************************************************************************)
(* CarDashX (src/CarDashX.ino): a serial telemetry decoder driving a       *)
(* TM1638 display/LED/button module.                                       *)
(*                                                                         *)
(* One step of the model is one iteration of the work done by loop():      *)
(* either one call of processIncomingByte on a received byte, or the       *)
(* handling of one button code returned by module1.getButtons().           *)
(*                                                                         *)
(* Integer widths are those of the AVR boards the sketch documents (Uno,   *)
(* Nano): int and unsigned int are 16 bits, long is 32 bits, byte is 8.    *)
(***************************************************************************)
EXTENDS Integers, Sequences, FiniteSets

VARIABLES
    \* telemetry registers (src lines 112-121)
    carspeed, cargear, carrpm, caroil, carwater, carfuel, carlap, carpos,
    rpmleds, rpmmax,
    \* configuration (src lines 122, 134-137)
    speedmultiplier, leftindicator, rightindicator, rpmstyle, redleds,
    \* decoder (src lines 139, 146, 148)
    reverse, state, currentValue,
    \* persistent storage: the five bytes at EEPROM addresses 5, 7, 9, 11, 13
    eeprom,
    \* the build: what the conversion of an out-of-range float to unsigned
    \* int at src line 177 yields (undefined in C++, one function per build)
    floatCast,
    \* the calls made on module1 during the last step, in order
    calls,
    \* observation: the command dispatched by handlePreviousState in the
    \* last step (kind = the decoder state it switched on)
    applied,
    \* observation: the last step evaluated map() with in_max = in_min
    divByZero,
    \* observation: the input handled by the last step
    input,
    \* observation: the last non-digit byte processed and the digits
    \* processed since
    frame,
    \* environment: bytes the host still has to send, and the bytes it has
    \* sent (stream-driven runs)
    tape, fed,
    \* environment: number of non-digit bytes fed, number of button codes handled
    ncmd, npress,
    \* environment: how many times ApplyCommand re-applied the command `applied'
    applyCount

tele   == <<carspeed, cargear, carrpm, caroil, carwater, carfuel, carlap, carpos, rpmmax>>
config == <<speedmultiplier, leftindicator, rightindicator, rpmstyle, redleds>>
decoder == <<reverse, state, currentValue>>
vars == <<carspeed, cargear, carrpm, caroil, carwater, carfuel, carlap, carpos,
          rpmleds, rpmmax, speedmultiplier, leftindicator, rightindicator,
          rpmstyle, redleds, reverse, state, currentValue, eeprom, calls,
          applied, divByZero, input, frame, tape, fed, ncmd, npress, applyCount, floatCast>>

(***************************************************************************)
(* Machine arithmetic                                                      *)
(***************************************************************************)
Pow2(n) == 2 ^ n

\* value of an expression stored into a 16-bit unsigned int / word
U16(x) == x % 65536

\* value of an expression stored into a 16-bit signed int (two's complement)
S16(x) == IF x % 65536 >= 32768 THEN (x % 65536) - 65536 ELSE x % 65536

\* value stored into a byte
U8(x) == x % 256

\* C++ integer division truncates toward zero
TruncDiv(a, b) ==
    IF (a >= 0) = (b > 0) THEN (IF a >= 0 THEN a ELSE -a) \div (IF b > 0 THEN b ELSE -b)
    ELSE -((IF a >= 0 THEN a ELSE -a) \div (IF b > 0 THEN b ELSE -b))

\* 1 << n evaluated in a 16-bit int and added to a word. For n = 15 the
\* bit pattern is 0x8000. For n >= 16 the count exceeds the width of int:
\* the AVR shift loop shifts the single set bit out and leaves 0.
\* variant: the shift count taken modulo the width of int
Shl1Wrapped(n) == Pow2(n % 16)

Shl1(n) == IF n < 16 THEN Pow2(n) ELSE 0

(***************************************************************************)
(* Bytes                                                                   *)
(***************************************************************************)
DigitChars == <<"0", "1", "2", "3", "4", "5", "6", "7", "8", "9">>

\* variant: a range test that starts one digit late
isdigitFromTwo(c) == \E i \in 3..10 : DigitChars[i] = c

isdigit(c) == \E i \in 1..10 : DigitChars[i] = c

\* c - '0'
DigitValue(c) == (CHOOSE i \in 1..10 : DigitChars[i] = c) - 1

\* String(value) for an unsigned value: its decimal digits
RECURSIVE String(_)
String(n) ==
    IF n < 10 THEN <<DigitChars[n + 1]>>
    ELSE String(n \div 10) \o <<DigitChars[(n % 10) + 1]>>

(***************************************************************************)
(* Constants of the sketch                                                 *)
(***************************************************************************)
LEFT == 1
RIGHT == 2

btn1 == 1
btn2 == 2
btn3 == 4
btn4 == 8
btn5 == 16
btn6 == 32
btn7 == 64
btn8 == 128

indicator == <<"S", "G", "R", "O", "W", "F", "L">>

\* sizeof(indicator)
SizeofIndicator == Len(indicator)

States == {"NONE", "GOT_R", "GOT_S", "GOT_G", "GOT_O", "GOT_W", "GOT_F",
           "GOT_L", "GOT_P", "GOT_STOP", "GOT_START", "GOT_MAXRPM"}

\* the decoder state in which handlePreviousState compares the indicator
\* bytes with letter
StateLetter(st) ==
    CASE st = "GOT_R" -> {"R"}
      [] st = "GOT_S" -> {"S"}
      [] st = "GOT_G" -> {"G"}
      [] st = "GOT_O" -> {"O"}
      [] st = "GOT_W" -> {"W"}
      [] st = "GOT_F" -> {"F"}
      [] st = "GOT_L" -> {"L"}
      [] st = "GOT_P" -> {"P"}
      [] OTHER -> {}

\* indicator[i] as a handler reads it: the array element, or, for an index
\* past the end of the array, whatever byte lies there: one of the letters
\* the handler compares it with, or another byte (written "?")
IndicatorRead(i, letters) ==
    IF i < SizeofIndicator THEN {indicator[i + 1]} ELSE letters \cup {"?"}

(***************************************************************************)
(* Calls on the display module                                             *)
(***************************************************************************)
ClearDisplay == [op |-> "clearDisplay", text |-> <<>>, pos |-> 0, arg |-> 0, on |-> FALSE]
SetLEDs(leds) == [op |-> "setLEDs", text |-> <<>>, pos |-> 0, arg |-> leds, on |-> FALSE]
SetupDisplay(active, intensity) ==
    [op |-> "setupDisplay", text |-> <<>>, pos |-> 0, arg |-> intensity, on |-> active]
SetDisplayToString(string, pos) ==
    [op |-> "setDisplayToString", text |-> string, pos |-> pos, arg |-> 0, on |-> FALSE]

NoCommand == [kind |-> "NONE", operand |-> 0, reverse |-> FALSE]
NoInput == [src |-> "boot", byte |-> "", button |-> 0]
ByteInput(c) == [src |-> "byte", byte |-> c, button |-> 0]
ButtonInput(b) == [src |-> "button", byte |-> "", button |-> b]

(***************************************************************************)
(* Floating point products, converted back to an integer.  The products    *)
(* value * 3.6, rpmmax * 1.1 and rpmmax * 0.75 are computed in floating    *)
(* point and truncated by the conversion; for every 16-bit operand the     *)
(* result equals the integer quotient below.                               *)
(***************************************************************************)
Times3_6(v) == (v * 36) \div 10
Times1_1(v) == (v * 11) \div 10
Times0_75(v) == (v * 3) \div 4

\* what the conversion of an out-of-range float may yield in a build
FloatCasts == {"zero", "wrap", "saturate"}

\* the value an unsigned int receives from a floating point value x: x
\* itself when it fits, what the build yields when it does not (the
\* conversion is undefined for a value out of range)
FloatToUnsigned(x) ==
    IF x < 65536 THEN x
    ELSE CASE floatCast = "zero" -> 0
           [] floatCast = "wrap" -> U16(x)
           [] floatCast = "saturate" -> 65535

\* what a division by zero may leave in a long
DivZeroResults == {-1, 0, 11}

\* Arduino map(x, in_min, in_max, out_min, out_max) on longs:
\* (x - in_min) * (out_max - out_min) / (in_max - in_min) + out_min
map(x, in_min, in_max, out_min, out_max) ==
    IF in_max = in_min THEN DivZeroResults
    ELSE {TruncDiv((x - in_min) * (out_max - out_min), in_max - in_min) + out_min}

(***************************************************************************)
(* process* functions (src lines 152-249): the telemetry registers         *)
(***************************************************************************)
processMaxRPM(value) ==
    /\ rpmmax' = value
    /\ UNCHANGED <<carspeed, cargear, carrpm, caroil, carwater, carfuel, carlap, carpos>>

\* variant: rpmmax follows every RPM value
processRPMFollow(value) ==
    /\ carrpm' = value
    /\ rpmmax' = value
    /\ UNCHANGED <<carspeed, cargear, caroil, carwater, carfuel, carlap, carpos>>

\* variant: the test against 50000 is missing
processRPMUncapped(value) ==
    /\ carrpm' = value
    /\ rpmmax' = IF value > rpmmax THEN value ELSE rpmmax
    /\ UNCHANGED <<carspeed, cargear, caroil, carwater, carfuel, carlap, carpos>>

processRPM(value) ==
    /\ carrpm' = value
    /\ rpmmax' = IF value > rpmmax /\ value < 50000 THEN value ELSE rpmmax
    /\ UNCHANGED <<carspeed, cargear, caroil, carwater, carfuel, carlap, carpos>>

\* variant: the new speed is added to the register
processSpeedAdd(value) ==
    /\ IF speedmultiplier
       THEN carspeed' = FloatToUnsigned(Times3_6(carspeed + value))
       ELSE carspeed' = U16(carspeed + value)
    /\ UNCHANGED <<cargear, carrpm, caroil, carwater, carfuel, carlap, carpos, rpmmax>>

processSpeed(value) ==
    /\ IF speedmultiplier
       THEN carspeed' = FloatToUnsigned(Times3_6(value))
       ELSE carspeed' = value
    /\ UNCHANGED <<cargear, carrpm, caroil, carwater, carfuel, carlap, carpos, rpmmax>>

processGear(value) ==
    /\ cargear' = value
    /\ UNCHANGED <<carspeed, carrpm, caroil, carwater, carfuel, carlap, carpos, rpmmax>>

processOil(value) ==
    /\ caroil' = value
    /\ UNCHANGED <<carspeed, cargear, carrpm, carwater, carfuel, carlap, carpos, rpmmax>>

processWater(value) ==
    /\ carwater' = value
    /\ UNCHANGED <<carspeed, cargear, carrpm, caroil, carfuel, carlap, carpos, rpmmax>>

processFuel(value) ==
    /\ carfuel' = value
    /\ UNCHANGED <<carspeed, cargear, carrpm, caroil, carwater, carlap, carpos, rpmmax>>

processLap(value) ==
    /\ carlap' = value
    /\ UNCHANGED <<carspeed, cargear, carrpm, caroil, carwater, carfuel, carpos, rpmmax>>

processPos(value) ==
    /\ carpos' = value
    /\ UNCHANGED <<carspeed, cargear, carrpm, caroil, carwater, carfuel, carlap, rpmmax>>

\* the calls processStop makes on the module
\* variant: the LEDs are left as they are
processStopCallsNoLeds == <<ClearDisplay, SetupDisplay(FALSE, 7)>>

processStopCalls == <<ClearDisplay, SetLEDs(0), SetupDisplay(FALSE, 7)>>

processStop(value) ==
    /\ UNCHANGED <<carspeed, cargear, carrpm, caroil, carwater, carfuel, carlap, carpos, rpmmax>>

\* the calls processStart makes on the module
processStartCalls(value) == <<SetupDisplay(TRUE, value), ClearDisplay, SetLEDs(0)>>

processStart(value) ==
    /\ rpmmax' = 1000
    /\ UNCHANGED <<carspeed, cargear, carrpm, caroil, carwater, carfuel, carlap, carpos>>

(***************************************************************************)
(* printModule (src lines 251-269)                                         *)
(***************************************************************************)
\* variant: the text is not padded
PadTextNone(text, pad) == text

\* while (text.length() < pad) text = "0" + text
RECURSIVE PadText(_, _)
PadText(text, pad) == IF Len(text) < pad THEN PadText(<<"0">> \o text, pad) ELSE text

\* offset chosen for a side
Offset(text, side) == IF side = LEFT THEN 0 ELSE 8 - Len(text)

\* the call printModule ends with
printModule(value, pad, side) ==
    SetDisplayToString(PadText(String(value), pad),
                       Offset(PadText(String(value), pad), side))

(***************************************************************************)
(* handlePreviousState (src lines 271-415)                                 *)
(***************************************************************************)
\* variant: the slot texts are not written by the step
SlotCallsLater(letter, value, pad, l, r) == <<>>

\* the two guarded printModule calls of a telemetry case: l and r are the
\* bytes read from indicator[leftindicator] and indicator[rightindicator]
SlotCalls(letter, value, pad, l, r) ==
    (IF l = letter THEN <<printModule(value, pad, LEFT)>> ELSE <<>>)
    \o (IF r = letter THEN <<printModule(value, pad, RIGHT)>> ELSE <<>>)

\* variant: neutral tested before reverse
GearCallNeutralFirst(gear, rev, side) ==
    IF gear = 0
    THEN SetDisplayToString(<<"n">>, IF side = LEFT THEN 0 ELSE 7)
    ELSE IF rev = FALSE
         THEN printModule(gear, 1, side)
         ELSE SetDisplayToString(<<"R">>, IF side = LEFT THEN 0 ELSE 7)

\* the text and offset of case GOT_G for one side
GearCall(gear, rev, side) ==
    IF rev = FALSE
    THEN IF gear = 0
         THEN SetDisplayToString(<<"n">>, IF side = LEFT THEN 0 ELSE 7)
         ELSE printModule(gear, 1, side)
    ELSE SetDisplayToString(<<"R">>, IF side = LEFT THEN 0 ELSE 7)

GearCalls(gear, rev, l, r) ==
    (IF l = "G" THEN <<GearCall(gear, rev, LEFT)>> ELSE <<>>)
    \o (IF r = "G" THEN <<GearCall(gear, rev, RIGHT)>> ELSE <<>>)

\* switch (rpmstyle): the values the assignment may leave in rpmleds; no
\* case matches a style other than 0 and 1, and rpmleds keeps its value
RpmSteps(style, rpm, max, old) ==
    CASE style = 0 -> map(rpm, 0, Times1_1(max), 0, 10)
      [] style = 1 -> map(rpm, Times0_75(max), max, 0, 10)
      [] OTHER -> {old}

\* the map() call of the style divides by zero
RpmDivByZero(style, max) ==
    \/ style = 0 /\ Times1_1(max) = 0
    \/ style = 1 /\ max = Times0_75(max)

\* variant: the first red position tested with > instead of >=
LedBitLate(i, steps, red) ==
    IF i > U16(8 - red) \/ steps >= 9 THEN Shl1(i + 8) ELSE Shl1(i)

\* what iteration i of the loop adds to leds: 8 - redleds is an int and is
\* converted to unsigned int for the comparison with i
LedBit(i, steps, red) ==
    IF i >= U16(8 - red) \/ steps >= 9 THEN Shl1(i + 8) ELSE Shl1(i)

\* what the iterations lo..hi add to leds, summed pairwise
RECURSIVE LedSum(_, _, _, _)
LedSum(lo, hi, steps, red) ==
    IF lo > hi THEN 0
    ELSE IF lo = hi THEN LedBit(lo, steps, red)
    ELSE LET mid == (lo + hi) \div 2
         IN  LedSum(lo, mid, steps, red) + LedSum(mid + 1, hi, steps, red)

\* for (i = 0; i < rpmleds; i++) leds = leds + ...: leds is a word, so the
\* sum is taken modulo 2^16; i is an unsigned int, and the loop ends only
\* for rpmleds up to 65535
LedLoop(i, steps, red, leds) == U16(leds + LedSum(i, steps - 1, steps, red))

\* variant: case GOT_G leaves reverse as it is
ReverseKept == reverse

\* reverse = false at the end of case GOT_G
ReverseAfterGear == FALSE

handlePreviousState ==
    /\ applied' = IF state = "NONE" THEN NoCommand
                  ELSE [kind |-> state, operand |-> U16(currentValue), reverse |-> reverse]
    /\ currentValue' = 0
    /\ \E l \in IndicatorRead(leftindicator, StateLetter(state)),
          r \in IndicatorRead(rightindicator, StateLetter(state)) :
        CASE state = "GOT_MAXRPM" ->
               /\ processMaxRPM(U16(currentValue))
               /\ calls' = <<>>
               /\ divByZero' = FALSE
               /\ UNCHANGED <<rpmleds, reverse>>
          [] state = "GOT_R" ->
               /\ processRPM(U16(currentValue))
               /\ rpmleds' \in RpmSteps(rpmstyle, carrpm', rpmmax', rpmleds)
               /\ divByZero' = RpmDivByZero(rpmstyle, rpmmax')
               /\ calls' = SlotCalls("R", carrpm', 4, l, r)
                           \o <<SetLEDs(LedLoop(0, rpmleds', redleds, 0))>>
               /\ UNCHANGED reverse
          [] state = "GOT_W" ->
               /\ processWater(U16(currentValue))
               /\ calls' = SlotCalls("W", carwater', 3, l, r)
               /\ divByZero' = FALSE
               /\ UNCHANGED <<rpmleds, reverse>>
          [] state = "GOT_F" ->
               /\ processFuel(U16(currentValue))
               /\ calls' = SlotCalls("F", carfuel', 3, l, r)
               /\ divByZero' = FALSE
               /\ UNCHANGED <<rpmleds, reverse>>
          [] state = "GOT_O" ->
               /\ processOil(U16(currentValue))
               /\ calls' = SlotCalls("O", caroil', 3, l, r)
               /\ divByZero' = FALSE
               /\ UNCHANGED <<rpmleds, reverse>>
          [] state = "GOT_S" ->
               /\ processSpeed(U16(currentValue))
               /\ calls' = SlotCalls("S", carspeed', 3, l, r)
               /\ divByZero' = FALSE
               /\ UNCHANGED <<rpmleds, reverse>>
          [] state = "GOT_G" ->
               /\ processGear(U16(currentValue))
               /\ calls' = GearCalls(cargear', reverse, l, r)
               /\ reverse' = ReverseAfterGear
               /\ divByZero' = FALSE
               /\ UNCHANGED rpmleds
          [] state = "GOT_L" ->
               /\ processLap(U16(currentValue))
               /\ calls' = SlotCalls("L", carlap', 2, l, r)
               /\ divByZero' = FALSE
               /\ UNCHANGED <<rpmleds, reverse>>
          [] state = "GOT_P" ->
               /\ processPos(U16(currentValue))
               /\ calls' = SlotCalls("P", carpos', 2, l, r)
               /\ divByZero' = FALSE
               /\ UNCHANGED <<rpmleds, reverse>>
          [] state = "GOT_START" ->
               /\ processStart(U16(currentValue))
               /\ calls' = processStartCalls(U16(currentValue))
               /\ divByZero' = FALSE
               /\ UNCHANGED <<rpmleds, reverse>>
          [] state = "GOT_STOP" ->
               /\ processStop(U16(currentValue))
               /\ calls' = processStopCalls
               /\ divByZero' = FALSE
               /\ UNCHANGED <<rpmleds, reverse>>
          [] OTHER ->
               /\ calls' = <<>>
               /\ divByZero' = FALSE
               /\ UNCHANGED <<tele, rpmleds, reverse>>

(***************************************************************************)
(* processIncomingByte (src lines 417-477)                                 *)
(***************************************************************************)
\* variant: the switch has no default case
NewStateKept(c) ==
    CASE c = "T" -> "GOT_MAXRPM"
      [] c = "R" -> "GOT_R"
      [] c = "S" -> "GOT_S"
      [] c = "G" -> "GOT_G"
      [] c = "O" -> "GOT_O"
      [] c = "W" -> "GOT_W"
      [] c = "F" -> "GOT_F"
      [] c = "L" -> "GOT_L"
      [] c = "P" -> "GOT_P"
      [] c = "Z" -> "GOT_STOP"
      [] c = "Y" -> "GOT_START"
      [] OTHER -> state

\* switch (c): the state a non-digit byte other than '-' selects
NewState(c) ==
    CASE c = "T" -> "GOT_MAXRPM"
      [] c = "R" -> "GOT_R"
      [] c = "S" -> "GOT_S"
      [] c = "G" -> "GOT_G"
      [] c = "O" -> "GOT_O"
      [] c = "W" -> "GOT_W"
      [] c = "F" -> "GOT_F"
      [] c = "L" -> "GOT_L"
      [] c = "P" -> "GOT_P"
      [] c = "Z" -> "GOT_STOP"
      [] c = "Y" -> "GOT_START"
      [] OTHER -> "NONE"

\* variant: the digit is added without the multiplication by 10
AccumulateNoShift(value, c) == S16(value + DigitValue(c))

\* currentValue *= 10; currentValue += c - '0' in a 16-bit signed int
Accumulate(value, c) == S16(S16(value * 10) + DigitValue(c))

\* variant: the test for the minus sign is missing
TerminatesAlways(c) == TRUE

\* if (c != '-') handlePreviousState()
Terminates(c) == c # "-"

processIncomingByte(c) ==
    /\ IF isdigit(c)
       THEN /\ currentValue' = Accumulate(currentValue, c)
            /\ calls' = <<>>
            /\ applied' = NoCommand
            /\ divByZero' = FALSE
            /\ UNCHANGED <<tele, rpmleds, reverse, state>>
       ELSE IF ~Terminates(c)
            THEN /\ reverse' = TRUE
                 /\ state' = "GOT_G"
                 /\ calls' = <<>>
                 /\ applied' = NoCommand
                 /\ divByZero' = FALSE
                 /\ UNCHANGED <<tele, rpmleds, currentValue>>
            ELSE /\ handlePreviousState
                 /\ state' = NewState(c)
    /\ UNCHANGED <<config, eeprom, floatCast>>

(***************************************************************************)
(* dispIndicators (src lines 479-492) and the button switch of loop        *)
(* (src lines 595-667)                                                     *)
(***************************************************************************)
\* the calls of dispIndicators; l and r are the bytes read from the
\* indicator array, String(bool) prints 0 or 1
dispIndicators(l, r) ==
    <<ClearDisplay,
      SetDisplayToString(<<l, " ">> \o String(IF speedmultiplier' THEN 1 ELSE 0)
                         \o <<" ">> \o String(rpmstyle') \o String(redleds')
                         \o <<" ", r>>, 0)>>

\* the image the five EEPROM.updateByte calls of btn8 leave
SavedImage ==
    [left |-> leftindicator, right |-> rightindicator,
     mult |-> IF speedmultiplier THEN 1 ELSE 0,
     style |-> rpmstyle, red |-> redleds]

\* variant: every button resets rpmmax
ButtonRpmMaxAlways(b) == 1000

\* rpmmax after the switch on buttons: only case btn6 assigns it
ButtonRpmMax(b) == IF b = btn6 THEN 1000 ELSE rpmmax

\* loop, for one value of buttons other than 0 and 255
loopButtons(b) ==
    /\ b # 0 /\ b # 255
    /\ CASE b = btn1 ->
              /\ leftindicator' = IF leftindicator + 1 < SizeofIndicator
                                  THEN leftindicator + 1 ELSE 0
              /\ UNCHANGED <<rightindicator, speedmultiplier, rpmstyle, redleds, eeprom>>
         [] b = btn2 ->
              /\ rightindicator' = IF rightindicator + 1 < SizeofIndicator
                                   THEN rightindicator + 1 ELSE 0
              /\ UNCHANGED <<leftindicator, speedmultiplier, rpmstyle, redleds, eeprom>>
         [] b = btn3 ->
              /\ speedmultiplier' = ~speedmultiplier
              /\ UNCHANGED <<leftindicator, rightindicator, rpmstyle, redleds, eeprom>>
         [] b = btn4 ->
              /\ rpmstyle' = (rpmstyle + 1) % 2
              /\ UNCHANGED <<leftindicator, rightindicator, speedmultiplier, redleds, eeprom>>
         [] b = btn5 ->
              /\ redleds' = (redleds + 1) % 9
              /\ UNCHANGED <<leftindicator, rightindicator, speedmultiplier, rpmstyle, eeprom>>
         [] b = btn6 ->
              /\ UNCHANGED <<config, eeprom>>
         [] b = btn8 ->
              /\ eeprom' = SavedImage
              /\ UNCHANGED config
         [] OTHER ->
              /\ UNCHANGED <<config, eeprom>>
    /\ rpmmax' = ButtonRpmMax(b)
    /\ IF b \in {btn1, btn2, btn3, btn4, btn5, btn6, btn8}
       THEN \E l \in IndicatorRead(leftindicator', {}), r \in IndicatorRead(rightindicator', {}) :
                calls' = dispIndicators(l, r) \o <<ClearDisplay>>
       ELSE calls' = <<>>
    /\ applied' = NoCommand
    /\ divByZero' = FALSE
    /\ UNCHANGED <<carspeed, cargear, carrpm, caroil, carwater, carfuel, carlap, carpos,
                   rpmleds, decoder, floatCast>>

(***************************************************************************)
(* setup (src lines 540-588) and the initial values of the globals         *)
(***************************************************************************)
Image(l, r, m, s, d) == [left |-> l, right |-> r, mult |-> m, style |-> s, red |-> d]

\* an EEPROM that was never written reads 0xFF at every address
ErasedImage == Image(255, 255, 255, 255, 255)

\* the state setup leaves when the EEPROM holds image
setup(image) ==
    /\ carspeed = 0 /\ cargear = 0 /\ carrpm = 0 /\ caroil = 0
    /\ carwater = 0 /\ carfuel = 0 /\ carlap = 0 /\ carpos = 0
    /\ rpmleds = 0
    /\ rpmmax = 1000
    /\ state = "NONE"
    /\ currentValue = 0
    /\ eeprom = image
    /\ leftindicator = image.left
    /\ rightindicator = image.right
    /\ speedmultiplier = (image.mult # 0)
    /\ rpmstyle = image.style
    /\ redleds = image.red
    /\ reverse = FALSE
    /\ calls = <<>>
    /\ applied = NoCommand
    /\ divByZero = FALSE
    /\ input = NoInput
    /\ frame = [opener |-> "", digits |-> <<>>]
    /\ floatCast \in FloatCasts

(***************************************************************************)
(* Environment: the host on the serial line and the user at the buttons    *)
(***************************************************************************)
\* bounds of the checked runs: events (non-digit bytes and button codes) per
\* run of the full program, non-digit bytes per run of the serial-only
\* program, button codes handled per run, largest operand a free host spells,
\* button codes handled while a documented stream is fed
MaxCmds == 3
MaxSerialCmds == 3
MaxPresses == 1
MaxOperand == 11
MaxFramePresses == 2

CommandLetters == {"T", "R", "S", "G", "O", "W", "F", "L", "P", "Z", "Y"}

\* the non-digit bytes a free host sends: every command letter, the minus
\* sign and a byte that is no command
HostNonDigits == CommandLetters \cup {"-", "X"}

\* the values getButtons may return: each single button, and two at once
ButtonCodes == {btn1, btn2, btn3, btn4, btn5, btn6, btn7, btn8, btn1 + btn2}

\* what the observation variables record of a processed byte
ObserveByte(c) ==
    /\ input' = ByteInput(c)
    /\ frame' = IF isdigit(c)
                THEN [frame EXCEPT !.digits = Append(@, c)]
                ELSE [opener |-> c, digits |-> <<>>]

\* loop reads the byte c from Serial and processes it; a free host sends at
\* most limit non-digit bytes and spells operands up to MaxOperand
FeedWithin(c, limit) ==
    /\ IF isdigit(c)
       THEN Accumulate(currentValue, c) \in 0..MaxOperand
       ELSE ncmd < limit
    /\ processIncomingByte(c)
    /\ ObserveByte(c)
    /\ ncmd' = IF isdigit(c) THEN ncmd ELSE ncmd + 1
    /\ UNCHANGED <<tape, fed, npress, applyCount>>

\* loop reads the next byte of the host's stream
FeedTape ==
    /\ tape # <<>>
    /\ processIncomingByte(Head(tape))
    /\ ObserveByte(Head(tape))
    /\ tape' = Tail(tape)
    /\ fed' = Append(fed, Head(tape))
    /\ UNCHANGED <<ncmd, npress, applyCount>>

\* loop polls the buttons and handles the value b
PressWithin(b, limit) ==
    /\ npress < limit
    /\ loopButtons(b)
    /\ input' = ButtonInput(b)
    /\ npress' = npress + 1
    /\ UNCHANGED <<frame, tape, fed, ncmd, applyCount>>

Press(b) == PressWithin(b, MaxPresses)

\* the environment variables of a run that boots and is not stream-driven
FreeRun ==
    /\ tape = <<>>
    /\ fed = <<>>
    /\ ncmd = 0
    /\ npress = 0
    /\ applyCount = 0

(***************************************************************************)
(* Spec: the whole program, serial bytes and buttons                       *)
(***************************************************************************)
\* the EEPROM holds the defaults of src lines 134-137, saved
BootImages == {Image(0, 1, 0, 1, 3)}

Init ==
    /\ \E image \in BootImages : setup(image)
    /\ FreeRun

Feed(c) == FeedWithin(c, MaxCmds - npress)

Poll(b) == ncmd + npress < MaxCmds /\ Press(b)

Next ==
    \/ \E c \in HostNonDigits \cup {"1"} : Feed(c)
    \/ \E b \in ButtonCodes : Poll(b)

Spec == Init /\ [][Next]_vars

(***************************************************************************)
(* SpecSerial: the program with nobody at the buttons                      *)
(***************************************************************************)
\* Gear in the right slot and in both slots, both bar styles, multiplier on and off
SerialImages == {Image(0, 1, 0, 1, 3), Image(1, 1, 1, 0, 8)}

InitSerial ==
    /\ \E image \in SerialImages : setup(image)
    /\ FreeRun

FeedSerial(c) == FeedWithin(c, MaxSerialCmds)

NextSerial == \E c \in HostNonDigits \cup {"1"} : FeedSerial(c)

SpecSerial == InitSerial /\ [][NextSerial]_vars

(***************************************************************************)
(* SpecButtons: the program with a silent serial line                      *)
(***************************************************************************)
\* EEPROM contents: bytes saved by btn8 and bytes never written (255)
ButtonImages ==
    {Image(l, r, m, s, d) : l \in {0, 5, 6, 255}, r \in {1, 6, 255}, m \in {0, 1, 255},
                            s \in {0, 1, 255}, d \in {0, 3, 7, 8, 255}}

InitButtons ==
    /\ \E image \in ButtonImages : setup(image)
    /\ FreeRun

NextButtons == \E b \in ButtonCodes : Press(b)

SpecButtons == InitButtons /\ [][NextButtons]_vars

(***************************************************************************)
(* SpecStream: the program fed one of the documented byte streams          *)
(***************************************************************************)
\* the example of the header comment (src line 32)
DocStream == <<"Y", "5", "S", "9", "5", "G", "2", "R", "4", "2", "5", "0",
               "T", "5", "0", "0", "0", "L", "3", "P", "1", "2", "R">>
\* an RPM update, then the start of the next command
CommitStream == <<"R", "4", "2", "5", "0", "T">>
\* a minus sign before the gear letter, and before the gear value
MinusGearStream == <<"-", "G", "3", "X", "G", "3", "X">>
GearMinusStream == <<"G", "-", "3", "X", "G", "3", "X">>
\* an RPM equal to the ceiling set before it
CeilingStream == <<"T", "4", "0", "0", "0", "R", "4", "0", "0", "0", "X">>
\* the remaining letters, ending in the documented stop sequence (src line 28)
TempStream == <<"O", "1", "0", "5", "W", "9", "0", "F", "3", "7", "Z", "0", "A">>

\* an RPM that raises rpmmax, one of 50000, one below rpmmax
RangeStream == <<"R", "4", "2", "5", "0", "R", "5", "0", "0", "0", "0",
                 "R", "6", "0", "0", "X">>

\* bytes that are no command letter, digits after them, commands between them
NoiseStream == <<"X", "1", "2", "R", "5", "A", "7", "S", "3", "E", "9", "-",
                 "q", "L", "4", "X">>

\* one RPM command, ended by a byte that starts nothing
RpmStream(v) == <<"R">> \o String(v) \o <<"X">>

\* RPM values that give every fill level 0..10 with the initial rpmmax, in
\* the full range (0..1100) and in the high range (750..1000)
LedRpms == {0, 110, 220, 330, 440, 550, 660, 770, 880, 990, 1100,
            775, 800, 825, 850, 875, 900, 925, 950, 975, 1000}

Streams == {DocStream, CommitStream, MinusGearStream, GearMinusStream, CeilingStream,
            TempStream, RangeStream, NoiseStream}
           \cup {RpmStream(v) : v \in LedRpms}

\* images with the slots on oil, water, fuel and lap
SlotImages ==
    {Image(3, 4, 0, 1, 3), Image(4, 3, 1, 0, 3), Image(5, 6, 0, 1, 3),
     Image(6, 5, 1, 1, 3), Image(3, 3, 0, 1, 3), Image(6, 6, 0, 1, 3)}

StreamImages ==
    {Image(l, r, m, s, d) : l \in {0, 1, 2}, r \in {1, 2}, m \in {0, 1},
                            s \in {0, 1}, d \in 0..8}
    \cup SlotImages \cup {ErasedImage}

InitStream ==
    /\ \E image \in StreamImages : setup(image)
    /\ tape \in Streams
    /\ fed = <<>>
    /\ ncmd = 0
    /\ npress = 0
    /\ applyCount = 0

NextStream == FeedTape

SpecStream == InitStream /\ [][NextStream]_vars

(***************************************************************************)
(* SpecFrame: short byte streams with the user at the buttons              *)
(***************************************************************************)
\* a ceiling, then an RPM above it
CeilingRpmStream == <<"T", "5", "R", "7", "X">>
\* a gear with a minus sign before its value, then a speed
ReverseSpeedStream == <<"G", "-", "1", "S", "9", "X">>

FrameStreams == {CeilingRpmStream, ReverseSpeedStream}

\* the defaults, and gear in the left slot with the full-range bar
FrameImages == {Image(0, 1, 0, 1, 3), Image(1, 6, 1, 0, 8)}

InitFrame ==
    /\ \E image \in FrameImages : setup(image)
    /\ tape \in FrameStreams
    /\ fed = <<>>
    /\ ncmd = 0
    /\ npress = 0
    /\ applyCount = 0

PressFrame(b) == PressWithin(b, MaxFramePresses)

NextFrame ==
    \/ FeedTape
    \/ \E b \in ButtonCodes : PressFrame(b)

SpecFrame == InitFrame /\ [][NextFrame]_vars

(***************************************************************************)
(* SpecApply: a command handed twice to its process function               *)
(***************************************************************************)
\* the process function handlePreviousState calls for a decoder state
ProcessCommand(kind, value) ==
    CASE kind = "GOT_MAXRPM" -> processMaxRPM(value)
      [] kind = "GOT_R" -> processRPM(value)
      [] kind = "GOT_W" -> processWater(value)
      [] kind = "GOT_F" -> processFuel(value)
      [] kind = "GOT_O" -> processOil(value)
      [] kind = "GOT_S" -> processSpeed(value)
      [] kind = "GOT_G" -> processGear(value)
      [] kind = "GOT_L" -> processLap(value)
      [] kind = "GOT_P" -> processPos(value)
      [] kind = "GOT_START" -> processStart(value)
      [] kind = "GOT_STOP" -> processStop(value)
      [] OTHER -> UNCHANGED tele

ApplyOperands == {0, 3, 12, 1000, 4250, 50000}

\* any snapshot, multiplier setting and command; a speed operand is one
\* whose product with 3.6 fits an unsigned int
InitApply ==
    /\ carspeed \in {0, 7} /\ cargear \in {0, 7} /\ carrpm \in {0, 7}
    /\ \E w \in {0, 7} : /\ caroil = w /\ carwater = w /\ carfuel = w
                         /\ carlap = w /\ carpos = w
    /\ rpmmax \in {7, 1000, 60000}
    /\ rpmleds = 0
    /\ speedmultiplier \in BOOLEAN
    /\ leftindicator = 0 /\ rightindicator = 1 /\ rpmstyle = 1 /\ redleds = 3
    /\ eeprom = Image(0, 1, 0, 1, 3)
    /\ reverse = FALSE /\ state = "NONE" /\ currentValue = 0
    /\ calls = <<>>
    /\ \E k \in States \ {"NONE"}, v \in ApplyOperands :
          /\ applied = [kind |-> k, operand |-> v, reverse |-> FALSE]
    /\ divByZero = FALSE
    /\ input = NoInput
    /\ frame = [opener |-> "", digits |-> <<>>]
    /\ floatCast \in FloatCasts
    /\ tape = <<>> /\ fed = <<>> /\ ncmd = 0 /\ npress = 0
    /\ applyCount = 0

\* the command `applied' is handed to its process function once more
ApplyCommand ==
    /\ applyCount < 2
    /\ ProcessCommand(applied.kind, applied.operand)
    /\ calls' = CASE applied.kind = "GOT_START" -> processStartCalls(applied.operand)
                  [] applied.kind = "GOT_STOP" -> processStopCalls
                  [] OTHER -> <<>>
    /\ applyCount' = applyCount + 1
    /\ UNCHANGED <<rpmleds, config, decoder, eeprom, floatCast, applied, divByZero, input, frame,
                   tape, fed, ncmd, npress>>

NextApply == ApplyCommand

SpecApply == InitApply /\ [][NextApply]_vars

(***************************************************************************)
(* Vocabulary of the properties                                            *)
(***************************************************************************)
DigitBytes == {"0", "1", "2", "3", "4", "5", "6", "7", "8", "9"}

\* the number a digit string spells: sum of d_i * 10^(n-i)
RECURSIVE DecimalSum(_, _)
DecimalSum(ds, i) ==
    IF i > Len(ds) THEN 0
    ELSE (CHOOSE d \in 0..9 : DigitChars[d + 1] = ds[i]) * (10 ^ (Len(ds) - i))
         + DecimalSum(ds, i + 1)

DecimalValue(ds) == DecimalSum(ds, 1)

\* the command kind a letter of the protocol table starts
LetterKind(c) ==
    CASE c = "T" -> "GOT_MAXRPM" [] c = "R" -> "GOT_R" [] c = "S" -> "GOT_S"
      [] c = "G" -> "GOT_G" [] c = "O" -> "GOT_O" [] c = "W" -> "GOT_W"
      [] c = "F" -> "GOT_F" [] c = "L" -> "GOT_L" [] c = "P" -> "GOT_P"
      [] c = "Z" -> "GOT_STOP" [] c = "Y" -> "GOT_START"

\* position in tele of the register a command kind writes (0: none)
FieldIndex(kind) ==
    CASE kind = "GOT_S" -> 1 [] kind = "GOT_G" -> 2 [] kind = "GOT_R" -> 3
      [] kind = "GOT_O" -> 4 [] kind = "GOT_W" -> 5 [] kind = "GOT_F" -> 6
      [] kind = "GOT_L" -> 7 [] kind = "GOT_P" -> 8 [] kind = "GOT_MAXRPM" -> 9
      [] OTHER -> 0

\* positions in tele a command of a kind may change
Touched(kind) ==
    CASE kind = "GOT_R" -> {3, 9}
      [] kind = "GOT_START" -> {9}
      [] kind \in {"GOT_STOP", "NONE"} -> {}
      [] OTHER -> {FieldIndex(kind)}

\* a step that processed a byte of a class
DigitStep == input'.src = "byte" /\ input'.byte \in DigitBytes
MinusStep == input'.src = "byte" /\ input'.byte = "-"
TerminatorStep == input'.src = "byte" /\ input'.byte \notin DigitBytes \cup {"-"}
LetterStep == input'.src = "byte" /\ input'.byte \in CommandLetters

\* the step changes no telemetry register, not rpmmax, and calls nothing
\* on the module
NoOutput == tele' = tele /\ calls' = <<>>

\* the step completes the command letter k, digits ds: k was the last
\* non-digit byte and the byte processed now is neither a digit nor '-'
Completes == TerminatorStep /\ frame.opener \in CommandLetters

DocCompleted(n) ==
    CASE n = 3 -> <<"GOT_START", 5>>
      [] n = 6 -> <<"GOT_S", 95>>
      [] n = 8 -> <<"GOT_G", 2>>
      [] n = 13 -> <<"GOT_R", 4250>>
      [] n = 18 -> <<"GOT_MAXRPM", 5000>>
      [] n = 20 -> <<"GOT_L", 3>>
      [] n = 23 -> <<"GOT_P", 12>>
      [] OTHER -> <<"NONE", 0>>

\* the documented stream completes its seven commands in order, and leaves
\* the registers named below with a speed register of speed
DocStreamLeaves(speed) ==
    /\ fed' \o tape' = DocStream => <<applied'.kind, applied'.operand>> = DocCompleted(Len(fed'))
    /\ fed' = DocStream =>
          /\ carspeed' = speed /\ cargear' = 2 /\ carrpm' = 4250
          /\ rpmmax' = 5000 /\ carlap' = 3 /\ carpos' = 12

GearCompleted(magnitude, rev) ==
    [kind |-> "GOT_G", operand |-> magnitude, reverse |-> rev]

\* C3 as claimed: from boot, the first command the bytes '-','G','3','X'
\* complete is Gear 3 with reverse=true, and 'G','3','X' fed afterwards
\* completes Gear 3 with reverse=false.
C3_AsClaimed ==
    fed \o tape = MinusGearStream =>
        /\ (Len(fed) <= 4 /\ applied # NoCommand) => applied = GearCompleted(3, TRUE)
        /\ Len(fed) = 4 => applied = GearCompleted(3, TRUE)
        /\ Len(fed) = 7 => applied = GearCompleted(3, FALSE)

\* C3 (amended): from boot, the bytes 'G','-','3','X' complete as their
\* first command Gear 3 with reverse=true, and 'G','3','X' fed afterwards
\* completes Gear 3 with reverse=false; the bytes '-','G','3','X' instead
\* complete Gear 0 with reverse=true when 'G' is processed and Gear 3 with
\* reverse=false when 'X' is.
C3_GearRoundTrip ==
    /\ fed \o tape = GearMinusStream =>
          /\ Len(fed) < 4 => applied = NoCommand
          /\ Len(fed) = 4 => applied = GearCompleted(3, TRUE) /\ cargear = 3 /\ ~reverse
          /\ Len(fed) = 7 => applied = GearCompleted(3, FALSE) /\ cargear = 3
    /\ fed \o tape = MinusGearStream =>
          /\ Len(fed) = 2 => applied = GearCompleted(0, TRUE) /\ cargear = 0 /\ ~reverse
          /\ Len(fed) = 4 => applied = GearCompleted(3, FALSE) /\ cargear = 3
          /\ Len(fed) = 7 => applied = GearCompleted(3, FALSE)

\* "G-3X" completed a reverse gear 3 and "G3X" after it a forward gear 3
C3_Witness ==
    /\ fed = GearMinusStream /\ applied = GearCompleted(3, FALSE) /\ cargear = 3

(***************************************************************************)
(* C4                                                                      *)
(***************************************************************************)
\* the text of a gear: "R" in reverse, else "n" for 0, else its decimal digits
RECURSIVE DecimalText(_)
DecimalText(n) ==
    IF n < 10 THEN <<DigitChars[n + 1]>>
    ELSE Append(DecimalText(n \div 10), DigitChars[(n % 10) + 1])

GearText(magnitude, rev) ==
    IF rev THEN <<"R">>
    ELSE IF magnitude = 0 THEN <<"n">>
    ELSE DecimalText(magnitude)

\* the step wrote a text to the display at an offset
Wrote(text, offset) ==
    \E i \in 1..Len(calls) :
        calls[i].op = "setDisplayToString" /\ calls[i].text = text /\ calls[i].pos = offset

\* C4: whenever a Gear command completes and a slot selects Gear, the text
\* written to that slot is "R" if reverse is set (for every magnitude, 0
\* included), else "n" for magnitude 0, else the decimal magnitude; the left
\* slot is written at offset 0, the right slot at 8 minus the text length.
C4_GearText ==
    applied.kind = "GOT_G" =>
        LET text == GearText(applied.operand, applied.reverse) IN
        /\ leftindicator = 1 => Wrote(text, 0)
        /\ rightindicator = 1 => Wrote(text, 8 - Len(text))
        /\ (applied.reverse \/ applied.operand = 0) /\ rightindicator = 1 => Wrote(text, 7)

\* a reverse gear of magnitude 0 completed with Gear selected in both slots
C4_Witness ==
    /\ applied = GearCompleted(0, TRUE) /\ leftindicator = 1 /\ rightindicator = 1
    /\ Wrote(<<"R">>, 0) /\ Wrote(<<"R">>, 7)

(***************************************************************************)
(* C5                                                                      *)
(***************************************************************************)
\* the mask of the LED call the step made
LedMask == calls[Len(calls)].arg

\* C5: with rpmstyle=1 (high range only), rpmmax=4000 and redleds=3 an RPM
\* command of value 4000 gives 10 steps and the LED mask 65280 (0xFF00: bits
\* 8..15 set, bits 0..7 clear); for every redleds in 0..8, whenever the
\* steps are 9 or 10 the mask passed to setLEDs is 65280.
C5_ShiftWarningOverflow ==
    /\ (fed = CeilingStream /\ rpmstyle = 1 /\ redleds = 3) =>
          /\ applied.kind = "GOT_R" /\ applied.operand = 4000 /\ rpmmax = 4000
          /\ rpmleds = 10
          /\ calls[Len(calls)].op = "setLEDs" /\ LedMask = 65280
    /\ (applied.kind = "GOT_R" /\ rpmleds \in {9, 10} /\ redleds \in 0..8) =>
          calls[Len(calls)].op = "setLEDs" /\ LedMask = 65280

\* the RPM of the scenario completed: 10 steps, all eight red LEDs
C5_Witness ==
    /\ fed = CeilingStream /\ rpmstyle = 1 /\ redleds = 3 /\ rpmmax = 4000
    /\ applied.kind = "GOT_R" /\ rpmleds = 10 /\ LedMask = 65280

(***************************************************************************)
(* C6                                                                      *)
(***************************************************************************)
\* C6 as claimed: every time an RPM command completes, the computed fill
\* level rpmleds lies in 0..10, in both bar modes.
C6_BoundedFillLevel ==
    (applied.kind = "GOT_R" /\ rpmstyle \in {0, 1}) => rpmleds \in 0..10

(***************************************************************************)
(* C7                                                                      *)
(***************************************************************************)
\* the step applied a Start command or handled the reset button
ResetStep == applied'.kind = "GOT_START" \/ (input'.src = "button" /\ input'.button = btn6)

\* C7 as claimed: across every step rpmmax does not decrease, except in a
\* step that applies a Start command or handles the reset button, after
\* which it is 1000; this holds for all command kinds, the max RPM command
\* included.
C7_AsClaimed ==
    [][ /\ rpmmax' < rpmmax => ResetStep
        /\ ResetStep => rpmmax' = 1000
      ]_vars

\* C7 (amended): across every step rpmmax does not decrease, except in a
\* step that applies a Start command or handles the reset button, after
\* which it is 1000, or in a step that applies a max RPM command, after
\* which it is that command's operand, smaller than before or not; an RPM
\* command only raises it and no other command changes it.
C7_CeilingMonotonicity ==
    [][ /\ rpmmax' < rpmmax => (ResetStep \/ applied'.kind = "GOT_MAXRPM")
        /\ rpmmax' > rpmmax => (ResetStep \/ applied'.kind \in {"GOT_MAXRPM", "GOT_R"})
        /\ ResetStep => rpmmax' = 1000
        /\ applied'.kind = "GOT_MAXRPM" => rpmmax' = applied'.operand
      ]_vars

\* a max RPM command lowered rpmmax below its initial 1000, and an RPM
\* command above it raised it again
C7_Witness ==
    /\ applied.kind = "GOT_R" /\ applied.operand = 11 /\ rpmmax = 11

(***************************************************************************)
(* C8                                                                      *)
(***************************************************************************)
\* C8: applying a command twice in a row leaves the eight telemetry
\* registers and rpmmax as applying it once does; the second RPM does not
\* change rpmmax and the speed multiplier is not compounded.
C8_Idempotence ==
    [][ applyCount = 1 => tele' = tele ]_vars

\* an RPM above rpmmax was applied twice; rpmmax is its value
C8_Witness ==
    /\ applyCount = 2 /\ applied.kind = "GOT_R" /\ applied.operand = 4250
    /\ rpmmax = 4250 /\ carrpm = 4250

(***************************************************************************)
(* C9                                                                      *)
(***************************************************************************)
\* C9 as claimed: button 1 advances leftindicator to the next of the eight
\* kinds Speed, Gear, Rpm, Oil, Water, Fuel, Lap, Position (indices 0..7),
\* wrapping from the last to the first, and leaves rightindicator alone;
\* button 2 does the same for rightindicator.
C9_SlotCycling ==
    [][ /\ (input'.button = btn1 /\ leftindicator \in 0..7) =>
              leftindicator' = (leftindicator + 1) % 8 /\ rightindicator' = rightindicator
        /\ (input'.button = btn2 /\ rightindicator \in 0..7) =>
              rightindicator' = (rightindicator + 1) % 8 /\ leftindicator' = leftindicator
      ]_vars

(***************************************************************************)
(* C10                                                                     *)
(***************************************************************************)
\* C10 as claimed: in every reachable state, the states right after setup
\* loaded the configuration from EEPROM included, redleds is in 0..8 and
\* leftindicator and rightindicator index an entry of the kind list.
C10_RedLedRange ==
    /\ redleds \in 0..8
    /\ leftindicator \in 0..7
    /\ rightindicator \in 0..7

(***************************************************************************)
(* C11                                                                     *)
(***************************************************************************)
\* the decimal digits of a value, zero-padded on the left to a width
RECURSIVE ZeroPadded(_, _)
ZeroPadded(value, width) ==
    IF width > 1 /\ value < 10 ^ (width - 1)
    THEN <<"0">> \o ZeroPadded(value, width - 1)
    ELSE DecimalText(value)

\* the step wrote a text to the display at an offset
WroteNext(text, offset) ==
    \E i \in 1..Len(calls') :
        /\ calls'[i].op = "setDisplayToString"
        /\ calls'[i].text = text /\ calls'[i].pos = offset

\* C11: when an RPM command of value v completes, carrpm becomes v in every
\* case; rpmmax becomes v if and only if v > rpmmax and v < 50000 and is
\* otherwise unchanged; for v >= 50000 the value is still stored and written
\* to every slot that selects Rpm, and rpmmax keeps its value.
C11_OutOfRangeRpm ==
    [][ applied'.kind = "GOT_R" =>
          LET v == applied'.operand IN
          /\ carrpm' = v
          /\ rpmmax' = IF v > rpmmax /\ v < 50000 THEN v ELSE rpmmax
          /\ v >= 50000 =>
                /\ rpmmax' = rpmmax
                /\ leftindicator = 2 => WroteNext(ZeroPadded(v, 4), 0)
                /\ rightindicator = 2 => WroteNext(ZeroPadded(v, 4), 8 - Len(ZeroPadded(v, 4)))
      ]_vars

\* an RPM of 50000 completed: stored, shown in both slots, rpmmax kept at 4250
C11_Witness ==
    /\ applied.kind = "GOT_R" /\ applied.operand = 50000 /\ carrpm = 50000
    /\ rpmmax = 4250 /\ leftindicator = 2 /\ rightindicator = 2
    /\ Wrote(<<"5", "0", "0", "0", "0">>, 0) /\ Wrote(<<"5", "0", "0", "0", "0">>, 3)

(***************************************************************************)
(* C12                                                                     *)
(***************************************************************************)
\* the index a slot selector has when it selects a kind, and the kind's
\* field width
SlotIndex(kind) ==
    CASE kind = "GOT_S" -> 0 [] kind = "GOT_G" -> 1 [] kind = "GOT_R" -> 2
      [] kind = "GOT_O" -> 3 [] kind = "GOT_W" -> 4 [] kind = "GOT_F" -> 5
      [] kind = "GOT_L" -> 6 [] kind = "GOT_P" -> 7 [] OTHER -> -1

FieldWidth(kind) ==
    CASE kind = "GOT_R" -> 4
      [] kind \in {"GOT_S", "GOT_O", "GOT_W", "GOT_F"} -> 3
      [] kind \in {"GOT_L", "GOT_P"} -> 2
      [] OTHER -> 1

\* the text of the command applied by the step, from the registers it left
AppliedText ==
    IF applied'.kind = "GOT_G"
    THEN GearText(cargear', applied'.reverse)
    ELSE ZeroPadded(tele'[FieldIndex(applied'.kind)], FieldWidth(applied'.kind))

\* C12: commands are applied in the order in which their terminating bytes
\* are processed and at most one per byte: a byte step applies the command
\* pending before it when the byte is neither a digit nor '-', and no
\* command otherwise; a button step applies none; the display texts and the
\* LED update of a command are issued in the step that applies it: a step
\* that applies no command writes nothing, and every text a step writes is
\* the text of the command that step applied.
C12_OrderingAndRefresh ==
    [][ /\ input'.src = "byte" =>
              /\ applied' = IF TerminatorStep /\ state # "NONE"
                            THEN [kind |-> state, operand |-> currentValue,
                                  reverse |-> reverse]
                            ELSE NoCommand
              /\ applied' = NoCommand => NoOutput /\ rpmleds' = rpmleds
              /\ (TerminatorStep /\ frame.opener \in CommandLetters) =>
                    applied'.kind = LetterKind(frame.opener)
              /\ (leftindicator = SlotIndex(applied'.kind)
                  \/ rightindicator = SlotIndex(applied'.kind)) =>
                    \E i \in 1..Len(calls') :
                        /\ calls'[i].op = "setDisplayToString"
                        /\ calls'[i].text = AppliedText
              /\ \A i \in 1..Len(calls') :
                    calls'[i].op = "setDisplayToString" => calls'[i].text = AppliedText
              /\ applied'.kind = "GOT_R" => calls'[Len(calls')].op = "setLEDs"
        /\ input'.src = "button" => applied' = NoCommand
      ]_vars

\* a speed command was applied and written to the left slot by the byte
\* that ended it, after a button had been handled
C12_Witness ==
    /\ applied.kind = "GOT_S" /\ applied.operand = 11 /\ npress = 1
    /\ leftindicator = 0 /\ Wrote(<<"0", "1", "1">>, 0) /\ input.src = "byte"

(***************************************************************************)
(* C13                                                                     *)
(***************************************************************************)
\* the step processed a byte that is no digit, no '-' and no command letter
NoiseStep == TerminatorStep /\ input'.byte \notin CommandLetters

\* the commands the noise stream completes, by the number of bytes fed
NoiseCompleted(n) ==
    CASE n = 6 -> [kind |-> "GOT_R", operand |-> 5, reverse |-> FALSE]
      [] n = 10 -> [kind |-> "GOT_S", operand |-> 3, reverse |-> FALSE]
      [] n = 13 -> [kind |-> "GOT_G", operand |-> 9, reverse |-> TRUE]
      [] n = 16 -> [kind |-> "GOT_L", operand |-> 4, reverse |-> FALSE]
      [] OTHER -> NoCommand

\* C13: a byte that is no digit, no '-' and no command letter leaves the
\* decoder in NONE and starts no command: it changes only what the command
\* pending before it writes, and a byte that ends the NONE state applies
\* nothing; after any bytes, a command letter k, digits and a non-digit byte
\* other than '-' complete exactly command k with the operand the digits
\* spell.
C13_NoiseRecovery ==
    [][ /\ NoiseStep =>
              /\ state' = "NONE" /\ currentValue' = 0
              /\ applied'.kind = state
              /\ \A i \in 1..9 : tele'[i] # tele[i] => i \in Touched(state)
        /\ (input'.src = "byte" /\ state = "NONE" /\ input'.byte # "-") =>
              applied' = NoCommand /\ NoOutput /\ rpmleds' = rpmleds
        /\ Completes =>
              applied' = [kind |-> LetterKind(frame.opener),
                          operand |-> DecimalValue(frame.digits),
                          reverse |-> FALSE]
        /\ fed' \o tape' = NoiseStream => applied' = NoiseCompleted(Len(fed'))
      ]_vars

\* the noise stream was fed whole: the lap command after the last noise
\* byte completed with its own digit
C13_Witness ==
    /\ fed = NoiseStream /\ state = "NONE" /\ carlap = 4 /\ carrpm = 5 /\ carspeed \in {3, 10}
    /\ applied = [kind |-> "GOT_L", operand |-> 4, reverse |-> FALSE]

(***************************************************************************)
(* C14                                                                     *)
(***************************************************************************)
\* bit n of a mask
Bit(mask, n) == (mask \div (2 ^ n)) % 2

\* C14: for every redleds in 0..8 and every fill level rpmleds in 0..8, the
\* mask passed to setLEDs has, for each position i < rpmleds, bit i+8 set
\* and bit i clear when i >= 8 - redleds, and bit i set and bit i+8 clear
\* otherwise; for each position i >= rpmleds both bits are clear. No
\* position is lit in both colours, exactly rpmleds positions are lit, and
\* the level 0 gives the mask 0.
C14_LedColouring ==
    (applied.kind = "GOT_R" /\ redleds \in 0..8 /\ rpmleds \in 0..8) =>
        /\ calls[Len(calls)].op = "setLEDs"
        /\ LedMask \in 0..65535
        /\ \A i \in 0..7 :
              /\ (i < rpmleds /\ i >= 8 - redleds) =>
                    Bit(LedMask, i + 8) = 1 /\ Bit(LedMask, i) = 0
              /\ (i < rpmleds /\ i < 8 - redleds) =>
                    Bit(LedMask, i) = 1 /\ Bit(LedMask, i + 8) = 0
              /\ i >= rpmleds => Bit(LedMask, i) = 0 /\ Bit(LedMask, i + 8) = 0
              /\ Bit(LedMask, i) + Bit(LedMask, i + 8) <= 1
        /\ Cardinality({n \in 0..15 : Bit(LedMask, n) = 1}) = rpmleds
        /\ rpmleds = 0 => LedMask = 0

\* level 8 with 3 red LEDs: positions 0..4 green, 5..7 red
C14_Witness ==
    /\ applied.kind = "GOT_R" /\ rpmleds = 8 /\ redleds = 3 /\ LedMask = 57375

(***************************************************************************)
(* C15                                                                     *)
(***************************************************************************)
\* C15: in every decoder state, processing '-' applies no command and
\* changes no telemetry register, not rpmmax and no module output; it sets
\* reverse, makes Gear the pending command and leaves currentValue as it
\* is. A command other than Gear that was pending when '-' arrived is never
\* applied: the next command applied is a Gear command in reverse.
C15_MinusHandling ==
    [][ /\ MinusStep =>
              /\ applied' = NoCommand /\ NoOutput /\ rpmleds' = rpmleds
              /\ reverse' = TRUE /\ state' = "GOT_G"
              /\ currentValue' = currentValue
        /\ (TerminatorStep /\ frame.opener = "-") =>
              /\ applied'.kind = "GOT_G" /\ applied'.reverse
              /\ \A i \in 1..9 : tele'[i] # tele[i] => i = 2
      ]_vars

\* a '-' arrived after a digit: Gear is pending in reverse with the digit
\* kept, and nothing was applied
C15_Witness ==
    /\ input.byte = "-" /\ state = "GOT_G" /\ reverse /\ currentValue = 11
    /\ applied = NoCommand /\ calls = <<>> /\ carrpm = 0 /\ carspeed = 0

(***************************************************************************)
(* C16                                                                     *)
(***************************************************************************)
\* the step made a call of an operation with an argument on the module
CalledNext(op, arg) ==
    \E i \in 1..Len(calls') : calls'[i].op = op /\ calls'[i].arg = arg

\* the step wrote no text to the display
NoTextNext == \A i \in 1..Len(calls') : calls'[i].op # "setDisplayToString"

\* C16: applying a Stop command, with any operand, changes none of the
\* eight telemetry registers, rpmmax, reverse and the configuration, sets
\* the LEDs to 0 and clears the display; applying a Start command changes
\* none of the eight telemetry registers and the configuration, sets rpmmax
\* to 1000, sets the LEDs to 0 and clears the display.
C16_StopStartFrame ==
    [][ /\ applied'.kind = "GOT_STOP" =>
              /\ tele' = tele /\ reverse' = reverse
              /\ config' = config /\ eeprom' = eeprom
              /\ CalledNext("setLEDs", 0) /\ CalledNext("clearDisplay", 0) /\ NoTextNext
        /\ applied'.kind = "GOT_START" =>
              /\ \A i \in 1..8 : tele'[i] = tele[i]
              /\ config' = config /\ eeprom' = eeprom
              /\ rpmmax' = 1000
              /\ CalledNext("setLEDs", 0) /\ CalledNext("clearDisplay", 0) /\ NoTextNext
      ]_vars

\* a Stop command was applied after an RPM command: the RPM is kept, the
\* display cleared, the LEDs off
C16_Witness ==
    /\ applied.kind = "GOT_STOP" /\ applied.operand = 1 /\ carrpm = 11
    /\ calls = <<ClearDisplay, SetLEDs(0), SetupDisplay(FALSE, 7)>>

(***************************************************************************)
(* C17                                                                     *)
(***************************************************************************)
IsText(call) == call.op = "setDisplayToString"

\* the texts the last step wrote, each with its offset, in order
TextsWritten ==
    LET texts == SelectSeq(calls, IsText)
    IN  [i \in 1..Len(texts) |-> <<texts[i].text, texts[i].pos>>]

\* a text written to the slots that select a kind: at offset 0 on the left,
\* at 8 minus its length on the right
SlotTexts(kind, text) ==
    (IF leftindicator = SlotIndex(kind) THEN <<<<text, 0>>>> ELSE <<>>)
    \o (IF rightindicator = SlotIndex(kind) THEN <<<<text, 8 - Len(text)>>>> ELSE <<>>)

\* both slot selectors index the indicator array
SlotsValid == leftindicator \in 0..6 /\ rightindicator \in 0..6

C18_RpmBarTotality ==
    applied.kind = "GOT_R" =>
        /\ rpmstyle = 0 => Times1_1(rpmmax) > 0
        /\ rpmstyle = 1 => rpmmax > Times0_75(rpmmax)
        /\ ~divByZero

(***************************************************************************)
(* C19                                                                     *)
(***************************************************************************)
\* C19 as claimed: whenever a command becomes pending, on a command letter
\* or on '-', currentValue is 0, so that the operand of a pending command
\* is built only from the digits received after the byte that made it
\* pending.
C19_OperandFreshness ==
    frame.opener \in CommandLetters \cup {"-"} =>
        currentValue = DecimalValue(frame.digits)

(***************************************************************************)
(* C20                                                                     *)
(***************************************************************************)
\* C20: in every reachable state reverse is set only while the pending
\* command is Gear; it is clear after every completed command, a Gear
\* command clears it whether or not a slot selects Gear, and no command
\* other than Gear is applied with reverse set.
C20_ReverseConfinement ==
    /\ reverse => state = "GOT_G"
    /\ applied # NoCommand => ~reverse
    /\ applied.reverse => applied.kind = "GOT_G"

\* a Gear command in reverse was applied while no slot selected Gear, and
\* reverse is clear
C20_Witness ==
    /\ applied = GearCompleted(1, TRUE) /\ ~reverse
    /\ leftindicator # 1 /\ rightindicator # 1 /\ calls = <<>>
(***************************************************************************)
(* C21                                                                     *)
(***************************************************************************)
\* a step that handled a value read from the buttons
ButtonStep == input'.src = "button"

\* C21: handling a value read from the buttons between two input bytes
\* leaves state, currentValue, reverse and the eight telemetry registers
\* unchanged; it changes rpmmax only for button 6 and the EEPROM only for
\* button 8; and a command whose letter and digits were processed before
\* the buttons were handled is applied by the next non-digit byte other
\* than '-' with the kind of the letter and the operand the digits spell.
C21_ButtonFrame ==
    [][ /\ ButtonStep =>
              /\ decoder' = decoder
              /\ \A i \in 1..8 : tele'[i] = tele[i]
              /\ rpmmax' # rpmmax => input'.button = btn6
              /\ eeprom' # eeprom => input'.button = btn8
        /\ (Completes /\ npress > 0) =>
              /\ applied'.kind = LetterKind(frame.opener)
              /\ applied'.operand = DecimalValue(frame.digits)
      ]_vars

\* button 6 was handled while the RPM command of the stream was pending
\* (rpmmax was 5 when 'R' was processed and is 1000 now), and the byte after
\* the digit applied the RPM command with its operand 7
C21_Witness ==
    /\ fed = CeilingRpmStream /\ npress = 1 /\ input = ByteInput("X")
    /\ rpmmax = 1000 /\ carrpm = 7
    /\ applied = [kind |-> "GOT_R", operand |-> 7, reverse |-> FALSE]
=============================================================================
